---- MODULE Spec2Model ----
(***************************************************************************)
(* Model of docs/conf.py, the Sphinx configuration script of               *)
(* posixcpptimer.  The script is a single linear program: it reads the     *)
(* environment variable READTHEDOCS, optionally instantiates Doxyfile from *)
(* Doxyfile.in (configureDoxyfile) and runs doxygen, and then binds the    *)
(* Sphinx / Breathe / rst2pdf options.                                     *)
(*                                                                         *)
(* Python strings that the script manipulates are sequences of one         *)
(* character strings; inert option values are TLA+ strings.                *)
(***************************************************************************)
EXTENDS Integers, Sequences, FiniteSets, TLC

VARIABLES
    environ,              \* os.environ restricted to READTHEDOCS
    doxyfileIn,           \* the file Doxyfile.in: [exists, data]
    doxyfile,             \* the file Doxyfile: [exists, data]
    outWritable,          \* whether Doxyfile can be opened for writing
    pc,                   \* the line the interpreter is about to execute
    ret,                  \* where configureDoxyfile returns to
    exc,                  \* the uncaught exception that halted the script
    bound,                \* the global names bound so far
    read_the_docs_build,  \* global, line 31
    breathe_projects,     \* global dict, lines 33, 39, 86
    input_dir,            \* global line 35 / parameter of configureDoxyfile
    output_dir,           \* global line 36 / parameter of configureDoxyfile
    filedata,             \* local of configureDoxyfile
    openFiles,            \* names of the files with an open handle
    writebuf,             \* data written to the open handle of Doxyfile
    opened,               \* history: names of the files ever opened
    doxyfile0,            \* history: Doxyfile as it was before the script
    calls,                \* history: the subprocess invocations, in order
    status,               \* exit status returned by the last subprocess
    config                \* the inert options bound so far: name -> value

vars == <<environ, doxyfileIn, doxyfile, outWritable, pc, ret, exc, bound,
          read_the_docs_build, breathe_projects, input_dir, output_dir,
          filedata, openFiles, writebuf, opened, doxyfile0, calls, status,
          config>>

-----------------------------------------------------------------------------
(* Bounds of the model *)

\* the templates given to configureDoxyfile called on its own are
\* concatenations of at most MaxFrags fragments
MaxFrags == 4
\* the templates the script finds are concatenations of at most
\* MaxScriptFrags fragments
MaxScriptFrags == 3
\* doxygen exits with a status in 0..MaxExitStatus
MaxExitStatus == 2

-----------------------------------------------------------------------------
(* String literals of the script *)

\* '@DOXYGEN_INPUT_DIR@'
InputToken ==
    <<"@","D","O","X","Y","G","E","N","_","I","N","P","U","T","_","D","I","R","@">>

\* '@DOXYGEN_OUTPUT_DIR@'
OutputToken ==
    <<"@","D","O","X","Y","G","E","N","_","O","U","T","P","U","T","_","D","I","R","@">>

\* '../include'
ScriptInputDir == <<".",".","/","i","n","c","l","u","d","e">>

\* 'build'
ScriptOutputDir == <<"b","u","i","l","d">>

\* '/xml'
XmlSuffix == <<"/","x","m","l">>

\* '../build/docs/doxygen/xml'
FallbackXmlPath ==
    <<".",".","/","b","u","i","l","d","/","d","o","c","s","/",
      "d","o","x","y","g","e","n","/","x","m","l">>

\* the project key of breathe_projects
ProjectKey == "posixcpptimer"

\* variant: 'doxygen Doxyfile'
DoxygenCommandWithDoxyfile == <<"doxygen", "Doxyfile">>

\* the command line handed to subprocess.call, split into words
DoxygenCommand == <<"doxygen">>

-----------------------------------------------------------------------------
(* Python values and built-ins *)

\* None, and a str value
NoneValue == [type |-> "NoneType"]
Str(s) == [type |-> "str", val |-> s]

\* os.environ.get(key, default) for the one key the script reads
EnvironGet(env, default) == IF env.set THEN Str(env.val) ELSE default

\* the empty dict, and d[k] = v
EmptyDict == <<>>
DictSet(d, k, v) == [x \in (DOMAIN d) \cup {k} |-> IF x = k THEN v ELSE d[x]]

\* variant: str.replace(old, new, 1), only the first occurrence is replaced
RECURSIVE ReplaceFirst(_, _, _)
ReplaceFirst(s, old, new) ==
    IF old = <<>> THEN new \o s
    ELSE IF Len(s) < Len(old) THEN s
    ELSE IF SubSeq(s, 1, Len(old)) = old
         THEN new \o SubSeq(s, Len(old) + 1, Len(s))
         ELSE <<Head(s)>> \o ReplaceFirst(Tail(s), old, new)

\* str.replace(old, new): the leftmost non-overlapping occurrences of old,
\* found scanning left to right, are replaced by new
RECURSIVE Replace(_, _, _)
Replace(s, old, new) ==
    IF old = <<>>
    THEN IF s = <<>> THEN new
         ELSE new \o <<Head(s)>> \o Replace(Tail(s), old, new)
    ELSE IF Len(s) < Len(old) THEN s
    ELSE IF SubSeq(s, 1, Len(old)) = old
         THEN new \o Replace(SubSeq(s, Len(old) + 1, Len(s)), old, new)
         ELSE <<Head(s)>> \o Replace(Tail(s), old, new)

\* os.linesep of a POSIX platform
LineSep == <<"\n">>

\* what a file opened in text mode hands to read(): '\r\n' and '\r' become
\* '\n' (open(..., 'r') has newline=None, universal newlines)
RECURSIVE ReadText(_)
ReadText(b) ==
    IF b = <<>> THEN <<>>
    ELSE IF Head(b) = "\r"
         THEN IF Len(b) >= 2 /\ b[2] = "\n"
              THEN <<"\n">> \o ReadText(SubSeq(b, 3, Len(b)))
              ELSE <<"\n">> \o ReadText(Tail(b))
         ELSE <<Head(b)>> \o ReadText(Tail(b))

\* what write() puts into a file opened in text mode: '\n' becomes os.linesep
WriteText(s) == Replace(s, <<"\n">>, LineSep)

\* a file that does not exist
Absent == [exists |-> FALSE, data |-> <<>>]
File(d) == [exists |-> TRUE, data |-> d]

-----------------------------------------------------------------------------
(* The inputs of a run: the environment and the working directory *)

\* READTHEDOCS: unset, or set to one of these values
EnvValues == {"True", "true", "TRUE", "1", ""}
Environs ==
    {[set |-> FALSE, val |-> ""]} \cup {[set |-> TRUE, val |-> v] : v \in EnvValues}

\* pieces of template text: the two tokens, text that forms a token only
\* together with its neighbours, and a DOS line ending
Fragments ==
    { InputToken,
      OutputToken,
      <<"@","D","O","X","Y">>,
      <<"O","U","T","P","U","T","_","D","I","R","@">>,
      <<"D","O","X","Y","G","E","N","_","O","U","T","P","U","T","_","D","I","R","@">>,
      <<"\r","\n">> }

\* the concatenations of at most n fragments
RECURSIVE Templates(_)
Templates(n) ==
    IF n = 0 THEN {<<>>}
    ELSE LET P == Templates(n - 1)
         IN  P \cup {f \o t : f \in Fragments, t \in P}

\* a Doxyfile left over from an earlier build
StaleDoxyfile == <<"s","t","a","l","e">>

ExitStatuses == 0 .. MaxExitStatus

\* the value of a name that is not bound yet; nothing reads it
Unbound == <<"<unbound>">>

\* what every run starts from, whatever calls the code
InitCommon ==
    /\ doxyfile \in {Absent, File(StaleDoxyfile)}
    /\ outWritable \in BOOLEAN
    /\ doxyfile0 = doxyfile
    /\ exc = "none"
    /\ filedata = Unbound
    /\ openFiles = {}
    /\ writebuf = <<>>
    /\ opened = {}
    /\ calls = <<>>
    /\ status = 0
    /\ config = EmptyDict

\* the interpreter is about to execute line 31 of conf.py
Init ==
    /\ InitCommon
    /\ doxyfileIn \in {Absent} \cup {File(t) : t \in Templates(MaxScriptFrags)}
    /\ environ \in Environs
    /\ pc = "l31"
    /\ ret = "l38"
    /\ bound = {"configureDoxyfile"}
    /\ read_the_docs_build = FALSE
    /\ breathe_projects = EmptyDict
    /\ input_dir = Unbound
    /\ output_dir = Unbound

-----------------------------------------------------------------------------
(* configureDoxyfile(input_dir, output_dir), lines 19-28 *)

cfgVars == <<environ, outWritable, ret, bound, read_the_docs_build,
             breathe_projects, input_dir, output_dir, doxyfile0, calls,
             status, config>>

\* an exception nobody catches ends the script
Raise(e) ==
    /\ exc' = e
    /\ pc' = "raised"

\* variant: a missing Doxyfile.in is read as an empty template
OpenInLenient ==
    /\ pc = "l21"
    /\ openFiles' = openFiles \cup {"Doxyfile.in"}
    /\ opened' = opened \cup {"Doxyfile.in"}
    /\ pc' = "l22"
    /\ UNCHANGED <<doxyfileIn, doxyfile, filedata, writebuf, exc>>
    /\ UNCHANGED cfgVars

\* line 21: open('Doxyfile.in', 'r')
OpenIn ==
    /\ pc = "l21"
    /\ IF doxyfileIn.exists
       THEN /\ openFiles' = openFiles \cup {"Doxyfile.in"}
            /\ opened' = opened \cup {"Doxyfile.in"}
            /\ pc' = "l22"
            /\ exc' = exc
       ELSE /\ Raise("FileNotFoundError")
            /\ UNCHANGED <<openFiles, opened>>
    /\ UNCHANGED <<doxyfileIn, doxyfile, filedata, writebuf>>
    /\ UNCHANGED cfgVars

\* line 22: filedata = file.read(), and the with block closes the file
ReadIn ==
    /\ pc = "l22"
    /\ filedata' = ReadText(doxyfileIn.data)
    /\ openFiles' = openFiles \ {"Doxyfile.in"}
    /\ pc' = "l24"
    /\ UNCHANGED <<doxyfileIn, doxyfile, writebuf, opened, exc>>
    /\ UNCHANGED cfgVars

\* line 24: filedata = filedata.replace('@DOXYGEN_INPUT_DIR@', input_dir)
ReplaceInputDir ==
    /\ pc = "l24"
    /\ filedata' = Replace(filedata, InputToken, input_dir)
    /\ pc' = "l25"
    /\ UNCHANGED <<doxyfileIn, doxyfile, openFiles, writebuf, opened, exc>>
    /\ UNCHANGED cfgVars

\* variant: a template without the output token is rejected
ReplaceOutputDirChecked ==
    /\ pc = "l25"
    /\ IF Replace(filedata, OutputToken, output_dir) = filedata
       THEN /\ Raise("ValueError")
            /\ UNCHANGED filedata
       ELSE /\ filedata' = Replace(filedata, OutputToken, output_dir)
            /\ pc' = "l27"
            /\ exc' = exc
    /\ UNCHANGED <<doxyfileIn, doxyfile, openFiles, writebuf, opened>>
    /\ UNCHANGED cfgVars

\* line 25: filedata = filedata.replace('@DOXYGEN_OUTPUT_DIR@', output_dir)
ReplaceOutputDir ==
    /\ pc = "l25"
    /\ filedata' = Replace(filedata, OutputToken, output_dir)
    /\ pc' = "l27"
    /\ UNCHANGED <<doxyfileIn, doxyfile, openFiles, writebuf, opened, exc>>
    /\ UNCHANGED cfgVars

\* line 27: open('Doxyfile', 'w') creates or truncates the file
OpenOut ==
    /\ pc = "l27"
    /\ IF outWritable
       THEN /\ doxyfile' = File(<<>>)
            /\ openFiles' = openFiles \cup {"Doxyfile"}
            /\ opened' = opened \cup {"Doxyfile"}
            /\ writebuf' = <<>>
            /\ pc' = "l28"
            /\ exc' = exc
       ELSE /\ Raise("PermissionError")
            /\ UNCHANGED <<doxyfile, openFiles, opened, writebuf>>
    /\ UNCHANGED <<doxyfileIn, filedata>>
    /\ UNCHANGED cfgVars

\* line 28: file.write(filedata) fills the buffer of the handle
WriteOut ==
    /\ pc = "l28"
    /\ writebuf' = writebuf \o WriteText(filedata)
    /\ pc' = "l28_exit"
    /\ UNCHANGED <<doxyfileIn, doxyfile, filedata, openFiles, opened, exc>>
    /\ UNCHANGED cfgVars

\* variant: the file is written without a with block and never closed
CloseOutNoFlush ==
    /\ pc = "l28_exit"
    /\ pc' = ret
    /\ UNCHANGED <<doxyfileIn, doxyfile, filedata, openFiles, writebuf, opened, exc>>
    /\ UNCHANGED cfgVars

\* end of the with block of line 27: the buffer is flushed, the file is
\* closed and configureDoxyfile returns
CloseOut ==
    /\ pc = "l28_exit"
    /\ doxyfile' = File(doxyfile.data \o writebuf)
    /\ writebuf' = <<>>
    /\ openFiles' = openFiles \ {"Doxyfile"}
    /\ pc' = ret
    /\ UNCHANGED <<doxyfileIn, filedata, opened, exc>>
    /\ UNCHANGED cfgVars

-----------------------------------------------------------------------------
(* The inert options, lines 44-190, as the script binds them *)

\* lines 44-49
ProjectInformation ==
    [ project |-> "posixcpptimer",
      copyright |-> "2021, Andrei Mironenko",
      author |-> "Andrei Mironenko",
      master_doc |-> "index",
      primary_domain |-> "cpp",
      breathe_domain_by_extension |-> [h |-> "cpp"] ]

\* lines 58-82
GeneralConfiguration ==
    [ extensions |-> <<"breathe", "sphinx.ext.autodoc", "rst2pdf.pdfbuilder">>,
      templates_path |-> <<"_templates">>,
      exclude_patterns |-> <<"_build", "Thumbs.db", ".DS_Store">>,
      html_theme |-> "sphinx_rtd_theme",
      html_static_path |-> <<>> ]

\* line 87
BreatheConfiguration ==
    [ breathe_default_project |-> "posixcpptimer" ]

\* lines 104-190
PdfOptions ==
    [ pdf_documents |-> << <<"index", "posixcpptimer",
                             "Posix C++17 timer wrapper library",
                             "Andrei Mironenko">> >>,
      pdf_stylesheets |-> <<"sphinx", "kerning", "a4">>,
      pdf_style_path |-> <<".", "_styles">>,
      pdf_header |-> "section ###Section### ###SectNum###",
      pdf_footer |-> "Page ###Page###",
      pdf_inline_footnotes |-> TRUE,
      pdf_use_coverpage |-> TRUE,
      pdf_cover_template |-> "sphinxcover.tmpl",
      pdf_page_template |-> "cutePage",
      pdf_toc_depth |-> 9999,
      pdf_use_numbered_links |-> FALSE,
      pdf_fit_background_mode |-> "scale",
      pdf_repeat_table_rows |-> TRUE ]

\* the module namespace after binding the names of options
Assign(options) == options @@ config

-----------------------------------------------------------------------------
(* The script, lines 31-190 *)

fileVars == <<doxyfileIn, doxyfile, filedata, openFiles, writebuf, opened>>
envVars == <<environ, outWritable, ret, doxyfile0, exc>>

\* variant: any non-empty value counts, os.environ.get('READTHEDOCS')
IsReadTheDocsTruthy(env) ==
    /\ EnvironGet(env, NoneValue) # NoneValue
    /\ EnvironGet(env, NoneValue) # Str("")

\* variant: the value is compared without regard to case
IsReadTheDocsIgnoreCase(env) ==
    EnvironGet(env, NoneValue) \in {Str("True"), Str("true"), Str("TRUE")}

\* os.environ.get('READTHEDOCS', None) == 'True'
IsReadTheDocs(env) == EnvironGet(env, NoneValue) = Str("True")

\* line 31
ReadEnvironment ==
    /\ pc = "l31"
    /\ read_the_docs_build' = IsReadTheDocs(environ)
    /\ bound' = bound \cup {"read_the_docs_build"}
    /\ pc' = "l33"
    /\ UNCHANGED <<breathe_projects, input_dir, output_dir, calls, status, config>>
    /\ UNCHANGED fileVars
    /\ UNCHANGED envVars

\* line 33
InitBreatheProjects ==
    /\ pc = "l33"
    /\ breathe_projects' = EmptyDict
    /\ bound' = bound \cup {"breathe_projects"}
    /\ pc' = "l34"
    /\ UNCHANGED <<read_the_docs_build, input_dir, output_dir, calls, status, config>>
    /\ UNCHANGED fileVars
    /\ UNCHANGED envVars

\* lines 34-36: the if, and the two directories of its body
Branch ==
    /\ pc = "l34"
    /\ IF read_the_docs_build
       THEN /\ input_dir' = ScriptInputDir
            /\ output_dir' = ScriptOutputDir
            /\ bound' = bound \cup {"input_dir", "output_dir"}
            /\ pc' = "l37"
       ELSE /\ pc' = "l44"
            /\ UNCHANGED <<input_dir, output_dir, bound>>
    /\ UNCHANGED <<read_the_docs_build, breathe_projects, calls, status, config>>
    /\ UNCHANGED fileVars
    /\ UNCHANGED envVars

\* line 37: the call of configureDoxyfile(input_dir, output_dir)
CallConfigure ==
    /\ pc = "l37"
    /\ pc' = "l21"
    /\ ret' = "l38"
    /\ UNCHANGED <<environ, outWritable, doxyfile0, exc, bound,
                   read_the_docs_build, breathe_projects, input_dir,
                   output_dir, calls, status, config>>
    /\ UNCHANGED fileVars

\* what the subprocess finds when it starts
Invocation(cmd) ==
    [ executable |-> Head(cmd),
      args |-> Tail(cmd),
      shell |-> TRUE,
      doxyfile |-> doxyfile,
      openFiles |-> openFiles,
      writebuf |-> writebuf ]

\* variant: subprocess.check_call, a non-zero exit status is raised
SubprocessCheckCall(cmd, rc) ==
    /\ calls' = Append(calls, Invocation(cmd))
    /\ status' = rc
    /\ IF rc = 0
       THEN pc' = "l39" /\ exc' = exc
       ELSE Raise("CalledProcessError")

\* subprocess.call: the exit status is the value of the call
SubprocessCall(cmd, rc) ==
    /\ calls' = Append(calls, Invocation(cmd))
    /\ status' = rc
    /\ pc' = "l39"
    /\ exc' = exc

\* line 38: subprocess.call('doxygen', shell=True), its value dropped
CallDoxygen ==
    /\ pc = "l38"
    /\ \E rc \in ExitStatuses : SubprocessCall(DoxygenCommand, rc)
    /\ UNCHANGED <<environ, outWritable, ret, doxyfile0, bound,
                   read_the_docs_build, breathe_projects, input_dir,
                   output_dir, config>>
    /\ UNCHANGED fileVars

\* line 39
RegisterBuildXml ==
    /\ pc = "l39"
    /\ breathe_projects' = DictSet(breathe_projects, ProjectKey, output_dir \o XmlSuffix)
    /\ pc' = "l44"
    /\ UNCHANGED <<bound, read_the_docs_build, input_dir, output_dir, calls,
                   status, config>>
    /\ UNCHANGED fileVars
    /\ UNCHANGED envVars

\* lines 44-49
SetProjectInformation ==
    /\ pc = "l44"
    /\ config' = Assign(ProjectInformation)
    /\ bound' = bound \cup DOMAIN ProjectInformation
    /\ pc' = "l58"
    /\ UNCHANGED <<read_the_docs_build, breathe_projects, input_dir, output_dir,
                   calls, status>>
    /\ UNCHANGED fileVars
    /\ UNCHANGED envVars

\* lines 58-82
SetGeneralConfiguration ==
    /\ pc = "l58"
    /\ config' = Assign(GeneralConfiguration)
    /\ bound' = bound \cup DOMAIN GeneralConfiguration
    /\ pc' = "l86"
    /\ UNCHANGED <<read_the_docs_build, breathe_projects, input_dir, output_dir,
                   calls, status>>
    /\ UNCHANGED fileVars
    /\ UNCHANGED envVars

\* variant: the fallback is registered only when doxygen did not succeed
RegisterFallbackXmlOnFailure ==
    /\ pc = "l86"
    /\ breathe_projects' =
          IF calls # <<>> /\ status = 0
          THEN breathe_projects
          ELSE DictSet(breathe_projects, ProjectKey, FallbackXmlPath)
    /\ pc' = "l87"
    /\ UNCHANGED <<bound, read_the_docs_build, input_dir, output_dir, calls,
                   status, config>>
    /\ UNCHANGED fileVars
    /\ UNCHANGED envVars

\* line 86
RegisterFallbackXml ==
    /\ pc = "l86"
    /\ breathe_projects' = DictSet(breathe_projects, ProjectKey, FallbackXmlPath)
    /\ pc' = "l87"
    /\ UNCHANGED <<bound, read_the_docs_build, input_dir, output_dir, calls,
                   status, config>>
    /\ UNCHANGED fileVars
    /\ UNCHANGED envVars

\* lines 87-190
SetBreatheAndPdfOptions ==
    /\ pc = "l87"
    /\ config' = Assign(PdfOptions @@ BreatheConfiguration)
    /\ bound' = bound \cup DOMAIN BreatheConfiguration \cup DOMAIN PdfOptions
    /\ pc' = "done"
    /\ UNCHANGED <<read_the_docs_build, breathe_projects, input_dir, output_dir,
                   calls, status>>
    /\ UNCHANGED fileVars
    /\ UNCHANGED envVars

Next ==
    \/ ReadEnvironment
    \/ InitBreatheProjects
    \/ Branch
    \/ CallConfigure
    \/ OpenIn
    \/ ReadIn
    \/ ReplaceInputDir
    \/ ReplaceOutputDir
    \/ OpenOut
    \/ WriteOut
    \/ CloseOut
    \/ CallDoxygen
    \/ RegisterBuildXml
    \/ SetProjectInformation
    \/ SetGeneralConfiguration
    \/ RegisterFallbackXml
    \/ SetBreatheAndPdfOptions

Spec == Init /\ [][Next]_vars

-----------------------------------------------------------------------------
(* configureDoxyfile called on its own, with any two directories *)

\* '../include', 'DIRS', 'GEN_' and 'x@DOXYGEN_'
InputDirs ==
    { ScriptInputDir,
      <<"D","I","R","S">>,
      <<"G","E","N","_">>,
      <<"x","@","D","O","X","Y","G","E","N","_">> }

\* 'build' and 'GEN_'
OutputDirs == { ScriptOutputDir, <<"G","E","N","_">> }

InitConfigure ==
    /\ InitCommon
    /\ doxyfileIn \in {Absent} \cup {File(t) : t \in Templates(MaxFrags)}
    /\ environ = [set |-> FALSE, val |-> ""]
    /\ pc = "l21"
    /\ ret = "returned"
    /\ bound = {"configureDoxyfile"}
    /\ read_the_docs_build = FALSE
    /\ breathe_projects = EmptyDict
    /\ input_dir \in InputDirs
    /\ output_dir \in OutputDirs

NextConfigure ==
    \/ OpenIn
    \/ ReadIn
    \/ ReplaceInputDir
    \/ ReplaceOutputDir
    \/ OpenOut
    \/ WriteOut
    \/ CloseOut

SpecConfigure == InitConfigure /\ [][NextConfigure]_vars

-----------------------------------------------------------------------------
(* Vocabulary of the properties *)

\* tok occurs in s at position i
OccursAt(s, tok, i) ==
    /\ i + Len(tok) - 1 <= Len(s)
    /\ SubSeq(s, i, i + Len(tok) - 1) = tok

Occurrences(s, tok) == {i \in 1 .. Len(s) : OccursAt(s, tok, i)}

Contains(s, tok) == Occurrences(s, tok) # {}

\* d is a (possibly empty) substring of tok
SubstringOf(d, tok) ==
    \/ d = <<>>
    \/ \E i \in 1 .. Len(tok) : OccursAt(tok, d, i)

\* the occurrences of the two tokens in s, as <<first, last>> positions
TokenSpans(s) ==
    {<<i, i + Len(InputToken) - 1>> : i \in Occurrences(s, InputToken)}
    \cup {<<i, i + Len(OutputToken) - 1>> : i \in Occurrences(s, OutputToken)}

\* no two occurrences of the tokens in s share a character
NoOverlap(s) ==
    \A a, b \in TokenSpans(s) : a = b \/ a[2] < b[1] \/ b[2] < a[1]

\* w is t with the occurrence of the input token at every position of
\* Occurrences(t, InputToken) replaced by indir, the occurrence of the output
\* token at every position of Occurrences(t, OutputToken) replaced by
\* outdir, and every character outside these occurrences kept, in order
Substituted(t, w, indir, outdir) ==
    LET occIn == Occurrences(t, InputToken)
        occOut == Occurrences(t, OutputToken)
        growIn == Len(indir) - Len(InputToken)
        growOut == Len(outdir) - Len(OutputToken)
        \* where position i of t lands in w
        at(i) == i + growIn * Cardinality({j \in occIn : j < i})
                   + growOut * Cardinality({j \in occOut : j < i})
        inToken(i) == \E sp \in TokenSpans(t) : sp[1] <= i /\ i <= sp[2]
    IN  /\ Len(w) = at(Len(t) + 1) - 1
        /\ \A i \in occIn : OccursAt(w, indir, at(i)) /\ at(i) >= 1
        /\ \A i \in occOut : OccursAt(w, outdir, at(i)) /\ at(i) >= 1
        /\ \A i \in 1 .. Len(t) :
              ~inToken(i) => at(i) \in 1 .. Len(w) /\ w[at(i)] = t[i]

\* READTHEDOCS is set to exactly 'True'
EnvIsTrue == environ.set /\ environ.val = "True"

\* the template the run started from
Template == doxyfileIn.data

\* 'build/xml'
BuildXmlPath == <<"b","u","i","l","d","/","x","m","l">>

\* the lines after the subprocess call of line 38
AfterCall == {"l39", "l44", "l58", "l86", "l87", "done"}

\* every inert option of the script, bound
AllOptions ==
    PdfOptions @@ BreatheConfiguration @@ GeneralConfiguration @@ ProjectInformation

-----------------------------------------------------------------------------
(* C1: the substitution of configureDoxyfile *)

\* configureDoxyfile has returned, for a template that holds both tokens
\* and two directories that hold neither
C1_Case ==
    /\ pc = "returned"
    /\ Contains(Template, InputToken) /\ Contains(Template, OutputToken)
    /\ \A d \in {input_dir, output_dir} :
          ~Contains(d, InputToken) /\ ~Contains(d, OutputToken)

\* Doxyfile holds neither token, and is the template with every occurrence
\* of a token replaced by its directory and everything else kept
C1_Result ==
    /\ ~Contains(doxyfile.data, InputToken)
    /\ ~Contains(doxyfile.data, OutputToken)
    /\ Substituted(Template, doxyfile.data, input_dir, output_dir)

\* C1 as claimed: for every template that holds both tokens and all
\* directories that hold neither, the content written holds neither token
\* and is the template with every occurrence of each token replaced.
C1_Original == C1_Case => C1_Result

\* neither directory holds '@' or is a substring of a token, the occurrences
\* of the tokens in the template do not overlap, and the template holds no
\* carriage return
C1_Disjoint ==
    /\ NoOverlap(Template)
    /\ \A i \in 1 .. Len(Template) : Template[i] # "\r"
    /\ \A d \in {input_dir, output_dir} :
          /\ \A i \in 1 .. Len(d) : d[i] # "@"
          /\ ~SubstringOf(d, InputToken)
          /\ ~SubstringOf(d, OutputToken)

\* C1 amended: the claim holds for the templates in which no two token
\* occurrences overlap and that hold no carriage return, and for the
\* directories that hold no '@' and are not substrings of a token.
C1_Substitution == (C1_Case /\ C1_Disjoint) => C1_Result

\* a template with two input tokens, an output token and other text has
\* been instantiated with a directory that shares characters with the tokens
C1_Witness ==
    /\ C1_Case /\ C1_Disjoint
    /\ Cardinality(Occurrences(Template, InputToken)) = 2
    /\ Cardinality(TokenSpans(Template)) < MaxFrags
    /\ input_dir = <<"D","I","R","S">>
    /\ doxyfile.data # Template

-----------------------------------------------------------------------------
(* C2, C10: READTHEDOCS is not exactly 'True' *)

\* C2: for every value of READTHEDOCS other than exactly 'True' (unset
\* included) the doxygen subprocess is never invoked, no exception is
\* raised, and when the script finishes breathe_projects holds the fallback
\* path '../build/docs/doxygen/xml' for 'posixcpptimer'.
C2_NoDoxygenOffReadTheDocs ==
    ~EnvIsTrue =>
        /\ calls = <<>>
        /\ pc # "raised"
        /\ pc = "done" =>
              /\ DOMAIN breathe_projects = {ProjectKey}
              /\ breathe_projects[ProjectKey] = FallbackXmlPath

\* the script has finished with READTHEDOCS set to 'true'
C2_Witness ==
    /\ pc = "done"
    /\ environ = [set |-> TRUE, val |-> "true"]
    /\ calls = <<>>

\* C10: when READTHEDOCS is not exactly 'True' no file is ever opened and
\* Doxyfile stays as it was before the script, whatever was in the
\* directory.
C10_FileSystemUntouched ==
    ~EnvIsTrue =>
        /\ opened = {}
        /\ openFiles = {}
        /\ doxyfile = doxyfile0

\* the script has finished with READTHEDOCS set to 'TRUE', without
\* Doxyfile.in and with an older Doxyfile in the directory
C10_Witness ==
    /\ pc = "done"
    /\ environ = [set |-> TRUE, val |-> "TRUE"]
    /\ ~doxyfileIn.exists
    /\ doxyfile = File(StaleDoxyfile)

-----------------------------------------------------------------------------
(* C3: the path registered on Read the Docs *)

\* C3 as claimed: when READTHEDOCS is exactly 'True' and the script runs to
\* completion, breathe_projects['posixcpptimer'] is output_dir + '/xml',
\* that is 'build/xml'.
C3_Claim ==
    (EnvIsTrue /\ pc = "done") =>
        /\ ProjectKey \in DOMAIN breathe_projects
        /\ breathe_projects[ProjectKey] = BuildXmlPath

-----------------------------------------------------------------------------
(* C4: the invocation of doxygen *)

\* C4: when READTHEDOCS is exactly 'True', doxygen has not been invoked
\* before configureDoxyfile returns, and from then on it has been invoked
\* exactly once, as 'doxygen' with no arguments; a finished script has
\* invoked it.
C4_DoxygenInvokedOnce ==
    EnvIsTrue =>
        /\ pc \notin AfterCall => calls = <<>>
        /\ pc \in AfterCall =>
              /\ Len(calls) = 1
              /\ calls[1].executable = "doxygen"
              /\ calls[1].args = <<>>

\* the script has finished on Read the Docs after one invocation
C4_Witness ==
    /\ EnvIsTrue
    /\ pc = "done"
    /\ Len(calls) = 1

-----------------------------------------------------------------------------
(* C5, C6: the exit status of doxygen *)

\* doxygen has returned a status other than zero
C5_Case == calls # <<>> /\ status # 0

\* C5 as claimed: when doxygen returns a non-zero exit status no statement
\* after the call executes: no breathe project path is registered, no
\* option is set and the script does not finish.
C5_Original ==
    C5_Case =>
        /\ breathe_projects = EmptyDict
        /\ config = EmptyDict
        /\ pc # "done"

\* C5 amended: when doxygen returns a non-zero exit status nothing is
\* raised; line 39 registers 'build/xml' and the script goes on to bind
\* every option.
C5_NonZeroStatusIgnored ==
    C5_Case =>
        /\ exc = "none"
        /\ pc \in AfterCall
        /\ pc = "l44" => breathe_projects[ProjectKey] = BuildXmlPath
        /\ pc \in AfterCall \ {"l39"} => ProjectKey \in DOMAIN breathe_projects
        /\ pc = "done" => DOMAIN config = DOMAIN AllOptions

\* the script has finished after doxygen returned the largest status
C5_Witness ==
    /\ pc = "done"
    /\ calls # <<>>
    /\ status = MaxExitStatus
    /\ DOMAIN config = DOMAIN AllOptions

\* C6: on Read the Docs, once doxygen has returned, with any status, the
\* script is not halted, and the configuration it finishes with is one and
\* the same: every option bound to its literal and the one breathe project.
C6_StatusNotChecked ==
    (EnvIsTrue /\ calls # <<>>) =>
        /\ pc # "raised"
        /\ pc = "done" =>
              /\ config = AllOptions
              /\ breathe_projects = DictSet(EmptyDict, ProjectKey, FallbackXmlPath)

\* the script has finished on Read the Docs after doxygen returned 1
C6_Witness ==
    /\ EnvIsTrue
    /\ pc = "done"
    /\ status = 1
    /\ calls # <<>>

-----------------------------------------------------------------------------
(* C7: Doxyfile.in cannot be opened *)

\* C7: on Read the Docs without Doxyfile.in the script never gets past
\* line 21, where it halts with the error of open(): Doxyfile stays as it
\* was, doxygen is not invoked and no breathe project is registered.
C7_OpenFailureHalts ==
    (EnvIsTrue /\ ~doxyfileIn.exists) =>
        /\ pc \in {"l31", "l33", "l34", "l37", "l21", "raised"}
        /\ pc = "raised" => exc = "FileNotFoundError"
        /\ doxyfile = doxyfile0
        /\ "Doxyfile" \notin opened
        /\ calls = <<>>
        /\ breathe_projects = EmptyDict

\* the script has halted at line 21 with an older Doxyfile in the directory
C7_Witness ==
    /\ EnvIsTrue
    /\ pc = "raised"
    /\ exc = "FileNotFoundError"
    /\ ~doxyfileIn.exists
    /\ doxyfile = File(StaleDoxyfile)

-----------------------------------------------------------------------------
(* C8: a template without a token *)

\* on Read the Docs, with a Doxyfile that can be written and a template
\* that lacks at least one of the two tokens
C8_Case ==
    /\ EnvIsTrue
    /\ doxyfileIn.exists
    /\ outWritable
    /\ ~(Contains(Template, InputToken) /\ Contains(Template, OutputToken))

\* nothing is raised; once configureDoxyfile has returned Doxyfile is the
\* template with the tokens it holds replaced and everything else kept (the
\* template itself when it holds no token), and doxygen is then invoked
C8_Result ==
    /\ exc = "none"
    /\ pc # "raised"
    /\ pc \in {"l38"} \cup AfterCall =>
          /\ Substituted(Template, doxyfile.data, ScriptInputDir, ScriptOutputDir)
          /\ TokenSpans(Template) = {} => doxyfile.data = Template
    /\ pc \in AfterCall => Len(calls) = 1

\* C8 as claimed: for a template in which a token is absent
\* configureDoxyfile completes without error and writes the template with
\* any present token replaced and everything else unchanged, and the script
\* goes on to invoke doxygen.
C8_Original == C8_Case => C8_Result

\* the template holds no carriage return and no two occurrences of a token
\* in it overlap
C8_PlainTemplate ==
    /\ \A i \in 1 .. Len(Template) : Template[i] # "\r"
    /\ NoOverlap(Template)

\* C8 amended: the claim holds for the templates that hold no carriage
\* return and in which no two occurrences of a token overlap.
C8_NoValidation == (C8_Case /\ C8_PlainTemplate) => C8_Result

\* the script has finished after instantiating a template that holds the
\* input token, other text and no output token
C8_Witness ==
    /\ C8_Case /\ C8_PlainTemplate
    /\ pc = "done"
    /\ Contains(Template, InputToken)
    /\ Len(Template) > Len(InputToken)
    /\ doxyfile.data # Template
    /\ Len(calls) = 1

-----------------------------------------------------------------------------
(* C9: doxygen runs after Doxyfile is complete *)

\* C9: whenever doxygen is invoked, Doxyfile.in has been opened, read and
\* closed, Doxyfile has been opened by this run, holds the whole of the
\* substituted text and is closed, with nothing left in a buffer.
C9_DoxyfileCompleteAtCall ==
    \A k \in 1 .. Len(calls) :
        /\ {"Doxyfile.in", "Doxyfile"} \subseteq opened
        /\ calls[k].openFiles = {}
        /\ calls[k].writebuf = <<>>
        /\ calls[k].doxyfile.exists
        /\ filedata # Unbound
        /\ calls[k].doxyfile.data = filedata

\* doxygen has been invoked in a directory that held an older Doxyfile,
\* with a template that holds both tokens
C9_Witness ==
    /\ calls # <<>>
    /\ doxyfile0 = File(StaleDoxyfile)
    /\ Contains(Template, InputToken)
    /\ Contains(Template, OutputToken)
    /\ calls[1].doxyfile.data # StaleDoxyfile

====
